---- MODULE Spec2Model ----
(***************************************************************************)
(* Model of src/app.py: the requirement extractor, the clause evaluators,  *)
(* the verdict aggregator and the amendment-text selection of the tender   *)
(* compliance tool.                                                        *)
(*                                                                         *)
(* Conventions.                                                            *)
(*  - A Python dict is a function whose DOMAIN is the set of keys present. *)
(*    d.get(k) is modelled by a test k \in DOMAIN d followed by d[k].      *)
(*  - Strings are ASCII here.  The Turkish letters of the source are       *)
(*    transliterated ("Uygun Degil", "Bilgi Yok", "Kanal Sayisi", ...);    *)
(*    the dotted test name "Fakt(o-umlaut)r" is written "Fakto:r" so that  *)
(*    it stays different from the plain spelling "Faktor".                 *)
(*  - A device test value is a bool or a string in the source.  Here all   *)
(*    values are strings: "True"/"False" stand for the two bools, every    *)
(*    other string is a str value ("manyetik", "optik").                   *)
(*  - A normalized text is a sequence of tokens (words or fixed two-word   *)
(*    phrases), separated by single blanks in the source text.             *)
(***************************************************************************)
EXTENDS Integers, Sequences, FiniteSets, TLC

VARIABLES text, rules, device, results, overall, zeyil_texts, pc

vars == <<text, rules, device, results, overall, zeyil_texts, pc>>

(***************************************************************************)
(* Bounds of the model.                                                    *)
(***************************************************************************)
\* largest required minimum in a drawn requirement record
MaxMin == 2
\* largest channel / probe count of a drawn device record
MaxDev == 3
\* most tests requested in a drawn requirement record
MaxReq == 2
\* longest verdict list handed to the aggregator on its own
MaxClauses == 5
\* most phrases in an uploaded document
MaxPhrases == 2
\* largest number written in an uploaded document
MaxNum == 1

(***************************************************************************)
(* Python dict helpers.                                                    *)
(***************************************************************************)
EmptyDict == [k \in {} |-> TRUE]

HasKey(d, k) == k \in DOMAIN d

\* the status strings ("durum")
UYGUN == "Uygun"
ZEYIL == "Zeyil"
UYGUN_DEGIL == "Uygun Degil"
BILGI_YOK == "Bilgi Yok"

Durumlar == {UYGUN, ZEYIL, UYGUN_DEGIL, BILGI_YOK}

\* the two spellings of the Factor test name
FAKTOR_TR == "Fakto:r"
FAKTOR_ASCII == "Faktor"

\* requested-test names in the insertion order of extract_rules_from_text
TestOrder == <<"PT", "APTT", "Fibrinojen", "D-Dimer", FAKTOR_TR>>

TestNames == {TestOrder[i] : i \in 1..Len(TestOrder)}

Clause(madde, durum, aciklama, zeyil) ==
    [madde |-> madde, durum |-> durum, aciklama |-> aciklama, zeyil |-> zeyil]

(***************************************************************************)
(* HELPERS (src/app.py 55-85).                                             *)
(***************************************************************************)
isinstance_bool(v) == v \in {"True", "False"}

\* device_get_barkod: missing keys default to False
device_get_barkod(device_koag) ==
    LET b == IF HasKey(device_koag, "barkod") THEN device_koag.barkod ELSE EmptyDict
    IN [numune  |-> IF HasKey(b, "numune") THEN b.numune ELSE FALSE,
        reaktif |-> IF HasKey(b, "reaktif") THEN b.reaktif ELSE FALSE]

\* the tolerance table of device_has_test; names outside it have no alternative
AltName(test_name) ==
    IF test_name = FAKTOR_TR THEN {FAKTOR_ASCII}
    ELSE IF test_name = FAKTOR_ASCII THEN {FAKTOR_TR}
    ELSE {}

device_has_test(device_koag, test_name) ==
    LET tests == IF HasKey(device_koag, "testler") THEN device_koag.testler ELSE EmptyDict
        found == IF test_name \in DOMAIN tests
                 THEN {tests[test_name]}
                 ELSE {tests[a] : a \in (AltName(test_name) \cap DOMAIN tests)}
    IN \* val is None when found is empty: neither bool nor str, so False
       \E val \in found :
           IF isinstance_bool(val) THEN val = "True" ELSE TRUE

(***************************************************************************)
(* EVALUATION ENGINES (src/app.py 187-274).                                *)
(***************************************************************************)
evaluate_barkod_reaktif_first(requirement, device_koag) ==
    LET device_barkod == device_get_barkod(device_koag)
    IN IF HasKey(requirement, "reaktif") /\ requirement.reaktif /\ ~device_barkod.reaktif
       THEN Clause("Barkod (Reaktif)", ZEYIL,
                   "Reaktif barkod okuyucu yok / esdeger yontem gerekir.", TRUE)
       ELSE IF HasKey(requirement, "numune") /\ requirement.numune /\ ~device_barkod.numune
       THEN Clause("Barkod (Numune)", UYGUN_DEGIL, "Numune barkod okuyucu yok.", FALSE)
       ELSE Clause("Barkod", UYGUN, "Barkod gereksinimleri karsilaniyor.", FALSE)

evaluate_barkod(requirement, device_koag) ==
    LET device_barkod == device_get_barkod(device_koag)
    IN IF HasKey(requirement, "numune") /\ requirement.numune /\ ~device_barkod.numune
       THEN Clause("Barkod (Numune)", UYGUN_DEGIL, "Numune barkod okuyucu yok.", FALSE)
       ELSE IF HasKey(requirement, "reaktif") /\ requirement.reaktif /\ ~device_barkod.reaktif
       THEN Clause("Barkod (Reaktif)", ZEYIL,
                   "Reaktif barkod okuyucu yok / esdeger yontem gerekir.", TRUE)
       ELSE Clause("Barkod", UYGUN, "Barkod gereksinimleri karsilaniyor.", FALSE)

\* "if not req": the key is missing (None) or its value is 0
NotReq(r, key) == ~HasKey(r, key) \/ r[key] = 0

\* safe_int(device_koag.get(key, 0)) or 0, for integer counts
DeviceCount(device_koag, key) ==
    IF HasKey(device_koag, key) THEN device_koag[key] ELSE 0

evaluate_kanal(r, device_koag) ==
    IF NotReq(r, "kanal_min")
    THEN Clause("Kanal Sayisi", BILGI_YOK, "Sartnamede kanal sayisi yakalanamadi.", FALSE)
    ELSE LET req == r.kanal_min
             dev == DeviceCount(device_koag, "kanal_toplam")
         IN IF dev >= req
            THEN Clause("Kanal Sayisi", UYGUN,
                        "Sartname en az {req} kanal, cihaz {dev} kanal.", FALSE)
            ELSE Clause("Kanal Sayisi", UYGUN_DEGIL,
                        "Sartname en az {req} kanal, cihaz {dev} kanal.", FALSE)

evaluate_prob(r, device_koag) ==
    IF NotReq(r, "prob_min")
    THEN Clause("Prob Sayisi", BILGI_YOK, "Sartnamede prob sayisi yakalanamadi.", FALSE)
    ELSE LET req == r.prob_min
             dev == DeviceCount(device_koag, "prob_sayisi")
         IN IF dev >= req
            THEN Clause("Prob Sayisi", UYGUN,
                        "Sartname en az {req} prob, cihaz {dev} prob.", FALSE)
            ELSE Clause("Prob Sayisi", UYGUN_DEGIL,
                        "Sartname en az {req} prob, cihaz {dev} prob.", FALSE)

\* "manyetik" in v.lower() / "optik" in v.lower(), for the str values drawn
StrContains(v, word) == v = word

\* device_methods of evaluate_okuma_yontemi: read off the str values of testler
DeviceMethods(device_koag) ==
    LET tests == IF HasKey(device_koag, "testler") THEN device_koag.testler ELSE EmptyDict
    IN {m \in {"manyetik", "optik"} :
          \E k \in DOMAIN tests :
              ~isinstance_bool(tests[k]) /\ StrContains(tests[k], m)}

evaluate_okuma_yontemi_lenient(r, device_koag) ==
    IF ~HasKey(r, "okuma_yontemi") \/ r.okuma_yontemi = {}
    THEN Clause("Okuma Yontemi", BILGI_YOK, "Sartnamede okuma yontemi yakalanamadi.", FALSE)
    ELSE IF "mekanik_clot" \in r.okuma_yontemi
    THEN Clause("Okuma Yontemi", ZEYIL, "Sartname clot/mekanik ifade ediyor.", TRUE)
    ELSE Clause("Okuma Yontemi", UYGUN, "Okuma yontemi gereksinimi karsilaniyor.", FALSE)

evaluate_okuma_yontemi(r, device_koag) ==
    IF ~HasKey(r, "okuma_yontemi") \/ r.okuma_yontemi = {}
    THEN Clause("Okuma Yontemi", BILGI_YOK, "Sartnamede okuma yontemi yakalanamadi.", FALSE)
    ELSE LET req_set == r.okuma_yontemi
             device_methods == DeviceMethods(device_koag)
         IN IF "manyetik" \in req_set /\ "manyetik" \notin device_methods
            THEN Clause("Okuma Yontemi", UYGUN_DEGIL,
                        "Sartname manyetik okuma istiyor, cihazda yakalanamadi.", FALSE)
            ELSE IF "mekanik_clot" \in req_set
            THEN IF "manyetik" \in device_methods
                 THEN Clause("Okuma Yontemi", ZEYIL,
                             "Sartname clot/mekanik ifade ediyor.", TRUE)
                 ELSE Clause("Okuma Yontemi", UYGUN_DEGIL,
                             "Sartname clot/mekanik istiyor, cihazda uygun yontem yakalanamadi.",
                             FALSE)
            ELSE Clause("Okuma Yontemi", UYGUN,
                        "Okuma yontemi gereksinimi karsilaniyor.", FALSE)

\* The loop of evaluate_testler from position i of the dict's items, with the
\* list of missing tests collected so far.  req_tests is iterated in insertion
\* order (TestOrder).
RECURSIVE TestLoop(_, _, _, _)
TestLoop(r, device_koag, i, missing) ==
    IF i > Len(TestOrder)
    THEN IF missing # <<>>
         THEN Clause("Testler", UYGUN_DEGIL, "Sartnamede istenen testlerden eksik", FALSE)
         ELSE Clause("Testler", UYGUN, "Istenen testler karsilaniyor (V1 yakalama).", FALSE)
    ELSE LET test_name == TestOrder[i]
         IN IF ~HasKey(r.istenen_testler, test_name) \/ ~r.istenen_testler[test_name]
            THEN TestLoop(r, device_koag, i + 1, missing)
            ELSE IF test_name \in {FAKTOR_TR, FAKTOR_ASCII}
            THEN LET has_factor == device_has_test(device_koag, FAKTOR_ASCII)
                                   \/ device_has_test(device_koag, FAKTOR_TR)
                 IN IF has_factor
                    THEN TestLoop(r, device_koag, i + 1, missing)
                    ELSE IF HasKey(r, "faktor_durumu")
                            /\ r.faktor_durumu = "opsiyonel_dis_lab"
                    THEN Clause("Fakto:r Testleri", ZEYIL,
                                "Fakto:r testleri cihazda yok; dis lab ile karsilanmasi icin zeyil gerekir.",
                                TRUE)
                    ELSE Clause("Fakto:r Testleri", UYGUN_DEGIL,
                                "Fakto:r testleri sartnamede zorunlu ve cihazda yok.", FALSE)
            ELSE IF ~device_has_test(device_koag, test_name)
            THEN TestLoop(r, device_koag, i + 1, Append(missing, test_name))
            ELSE TestLoop(r, device_koag, i + 1, missing)

evaluate_testler(r, device_koag) ==
    IF ~HasKey(r, "istenen_testler") \/ DOMAIN r.istenen_testler = {}
    THEN Clause("Testler", BILGI_YOK, "Sartnamede istenen testler yakalanamadi.", FALSE)
    ELSE TestLoop(r, device_koag, 1, <<>>)

aggregate_overall_zeyil_first(res) ==
    IF \E i \in DOMAIN res : res[i].durum = ZEYIL
    THEN [durum |-> "Zeyil ile Uygun", etiket |-> "Zeyil ile Uygun"]
    ELSE IF \E i \in DOMAIN res : res[i].durum = UYGUN_DEGIL
    THEN [durum |-> "Uygun Degil", etiket |-> "Uygun Degil"]
    ELSE [durum |-> "Uygun", etiket |-> "Uygun"]

aggregate_overall(res) ==
    IF \E i \in DOMAIN res : res[i].durum = UYGUN_DEGIL
    THEN [durum |-> "Uygun Degil", etiket |-> "Uygun Degil"]
    ELSE IF \E i \in DOMAIN res : res[i].durum = ZEYIL
    THEN [durum |-> "Zeyil ile Uygun", etiket |-> "Zeyil ile Uygun"]
    ELSE IF \A i \in DOMAIN res : res[i].durum \in {UYGUN, BILGI_YOK}
    THEN [durum |-> "Uygun", etiket |-> "Uygun"]
    ELSE [durum |-> "Inceleme Gerekli", etiket |-> "Inceleme Gerekli"]

(***************************************************************************)
(* TEXT.  A raw text is a sequence of tokens; normalize_tr lower-cases     *)
(* each token (src/app.py 40-49; whitespace runs are the token             *)
(* boundaries).                                                            *)
(***************************************************************************)
\* text.lower() on the tokens that carry upper-case letters
Lower(tok) ==
    CASE tok = "PT" -> "pt"
      [] tok = "APTT" -> "aptt"
      [] tok = "Faktor" -> "faktor"
      [] tok = "Referans Lab" -> "referans lab"
      [] tok = "Manyetik" -> "manyetik"
      [] OTHER -> tok

normalize_tr(raw) == [i \in DOMAIN raw |-> Lower(raw[i])]

(***************************************************************************)
(* normalize_tr character by character (src/app.py 40-49).  Here a text is *)
(* a sequence of characters, each written by an ASCII name: "dotless i" is *)
(* U+0131, "I with dot" U+0130, "combining dot" U+0307, "s-cedilla" U+015F,*)
(* "double-struck C" U+2102, "LF" and "TAB" the line feed and the tab.     *)
(***************************************************************************)
\* str.lower() of one character: "I with dot" lower-cases to two characters,
\* "double-struck C" is an upper-case letter without a lower-case form
str_lower_char(c) ==
    CASE c = "A" -> <<"a">>
      [] c = "I" -> <<"i">>
      [] c = "I with dot" -> <<"i", "combining dot">>
      [] c = "S-cedilla" -> <<"s-cedilla">>
      [] c = "G-breve" -> <<"g-breve">>
      [] c = "U-umlaut" -> <<"u-umlaut">>
      [] c = "O-umlaut" -> <<"o-umlaut">>
      [] c = "C-cedilla" -> <<"c-cedilla">>
      [] OTHER -> <<c>>

RECURSIVE str_lower(_)
str_lower(s) ==
    IF s = <<>> THEN <<>> ELSE str_lower_char(Head(s)) \o str_lower(Tail(s))

\* s.replace(old, new) for single characters
str_replace(s, old, new) == [i \in DOMAIN s |-> IF s[i] = old THEN new ELSE s[i]]

\* the characters \s matches
IsSpace(c) == c \in {" ", "LF", "TAB"}

RECURSIVE lstrip(_)
lstrip(s) ==
    IF s = <<>> THEN <<>>
    ELSE IF IsSpace(Head(s)) THEN lstrip(Tail(s)) ELSE s

\* re.sub(r"\s+", " ", s)
RECURSIVE re_sub_spaces(_)
re_sub_spaces(s) ==
    IF s = <<>> THEN <<>>
    ELSE IF IsSpace(Head(s)) THEN <<" ">> \o re_sub_spaces(lstrip(Tail(s)))
    ELSE <<Head(s)>> \o re_sub_spaces(Tail(s))

\* the six replacements, in the order of the source
Replacements(s) ==
    str_replace(str_replace(str_replace(str_replace(str_replace(str_replace(s,
        "dotless i", "i"), "s-cedilla", "s"), "g-breve", "g"),
        "u-umlaut", "u"), "o-umlaut", "o"), "c-cedilla", "c")

\* normalize_tr with \s in place of \s+ : every blank replaced on its own
normalize_tr_chars_each_space(x) ==
    LET t == Replacements(str_lower(x))
    IN [i \in DOMAIN t |-> IF IsSpace(t[i]) THEN " " ELSE t[i]]

normalize_tr_chars(x) == re_sub_spaces(Replacements(str_lower(x)))

\* longest character text drawn
MaxTextLen == 3

\* the characters of the drawn texts
Chars == {"a", "A", "I with dot", "dotless i", "S-cedilla", "o-umlaut",
          "double-struck C", "1", " ", "LF"}

Digits == <<"0", "1", "2", "3", "4", "5", "6", "7", "8", "9">>

NumTok(n) == Digits[n + 1]

\* \d+ matches the token
IsNum(tok) == \E n \in 0..9 : Digits[n + 1] = tok

\* int(m.group(1))
int(tok) == CHOOSE n \in 0..9 : Digits[n + 1] = tok

\* the token at position i, "" past the end of the text
Tok(t, i) == IF i \in DOMAIN t THEN t[i] ELSE ""

\* k occurs in the token tok (Python's "k in s" on one word of the text)
TokContains(tok, k) ==
    \/ tok = k
    \/ k = "barkod" /\ tok \in {"numune barkod", "reaktif barkod"}
    \/ k = "kanal" /\ tok = "kanali"
    \/ k = "prob" /\ tok = "problu"

\* k in t
InText(k, t) == \E i \in DOMAIN t : TokContains(t[i], k)

AnyIn(ks, t) == \E k \in ks : InText(k, t)

Units == {"olcum", "test", "reaksiyon"}

\* the position after an optional "adet" at j
SkipAdet(t, j) == IF Tok(t, j) = "adet" THEN j + 1 ELSE j

\* the position after an optional unit word at j
SkipUnit(t, j) == IF Tok(t, j) \in Units THEN j + 1 ELSE j

\* kanal_patterns[0..2] and prob_patterns[0..1] matched at position i of t;
\* the number token is at NumPos(p, i)
MatchAt(p, t, i) ==
    CASE p = "kanal1" -> /\ Tok(t, i) = "en az"
                         /\ IsNum(Tok(t, i + 1))
                         /\ TokContains(Tok(t, SkipUnit(t, SkipAdet(t, i + 2))), "kanal")
      [] p = "kanal2" -> /\ IsNum(Tok(t, i))
                         /\ Tok(t, SkipAdet(t, i + 1)) \in Units
                         /\ Tok(t, SkipAdet(t, i + 1) + 1) = "kanali"
      [] p = "kanal3" -> /\ Tok(t, i) = "en az"
                         /\ IsNum(Tok(t, i + 1))
                         /\ TokContains(Tok(t, i + 2), "kanal")
      [] p = "prob1" -> /\ Tok(t, i) = "en az"
                        /\ IsNum(Tok(t, i + 1))
                        /\ TokContains(Tok(t, i + 2), "prob")
      [] p = "prob2" -> /\ IsNum(Tok(t, i))
                        /\ Tok(t, i + 1) = "problu"

NumPos(p, i) == IF p \in {"kanal2", "prob2"} THEN i ELSE i + 1

kanal_patterns == <<"kanal1", "kanal2", "kanal3">>

prob_patterns == <<"prob1", "prob2">>

\* every match of the pattern in the text, not only the leftmost one
re_findall(p, t) ==
    {int(Tok(t, NumPos(p, i))) : i \in {j \in DOMAIN t : MatchAt(p, t, j)}}

\* re.search: the leftmost match only; the set holds int(m.group(1)), or is
\* empty when there is no match
re_search(p, t) ==
    LET hits == {i \in DOMAIN t : MatchAt(p, t, i)}
    IN IF hits = {} THEN {}
       ELSE {int(Tok(t, NumPos(p, CHOOSE i \in hits : \A j \in hits : i <= j)))}

Max(S) == CHOOSE x \in S : \A y \in S : y <= x

\* the values appended over the loop "for pat in patterns"
PatternVals(pats, t) == UNION {re_search(pats[i], t) : i \in DOMAIN pats}

(***************************************************************************)
(* TEST LIST BLOCK (src/app.py 91-100).                                    *)
(***************************************************************************)
\* the headers of extract_test_block that occur in the drawn texts, in the
\* order of the list
headers == <<"istenen test", "testler">>

\* the window of the block, 1600 characters in the source, in tokens here
BlockWindow == 3

\* t.find(h): the first position, 0 when h does not occur
Find(h, t) ==
    IF InText(h, t) THEN CHOOSE i \in DOMAIN t :
                            /\ TokContains(t[i], h)
                            /\ \A j \in DOMAIN t : TokContains(t[j], h) => i <= j
    ELSE 0

extract_test_block(t) ==
    LET found == {n \in DOMAIN headers : Find(headers[n], t) # 0}
    IN IF found = {} THEN <<>>
       ELSE LET h == headers[CHOOSE n \in found : \A m \in found : n <= m]
                idx == Find(h, t)
                last == IF idx + BlockWindow - 1 < Len(t) THEN idx + BlockWindow - 1
                        ELSE Len(t)
            IN SubSeq(t, idx, last)

\* scan = test_block if test_block else t
ScanRegion(t) == IF extract_test_block(t) # <<>> THEN extract_test_block(t) ELSE t

(***************************************************************************)
(* RULE EXTRACTION (src/app.py 106-181).                                   *)
(***************************************************************************)
NumuneKeys == {"numune barkod", "hasta barkod", "sample barcode", "tup barkod",
               "primer tup barkod"}

ReaktifKeys == {"reaktif barkod", "kit barkod", "reagent barcode",
                "barkod okuyucu ile kit okutulur"}

MekanikKeys == {"mekanik", "clot", "clotting", "clot detection", "pihti", "pihti olusumu"}

DisLabKeys == {"dis lab", "dis laboratuvar", "referans lab", "gonderilebilir", "hizmet alimi"}

FaktorKeys == {"faktor", "factor"}

KanalRule(t) ==
    IF PatternVals(kanal_patterns, t) # {}
    THEN "kanal_min" :> Max(PatternVals(kanal_patterns, t))
    ELSE EmptyDict

ProbRule(t) ==
    IF PatternVals(prob_patterns, t) # {}
    THEN "prob_min" :> Max(PatternVals(prob_patterns, t))
    ELSE EmptyDict

BarkodRule(t) ==
    LET barkod_req == (IF AnyIn(NumuneKeys, t) THEN "numune" :> TRUE ELSE EmptyDict)
                      @@ (IF AnyIn(ReaktifKeys, t) THEN "reaktif" :> TRUE ELSE EmptyDict)
    IN IF DOMAIN barkod_req # {} THEN "barkod" :> barkod_req
       ELSE IF InText("barkod", t) THEN "barkod" :> ("numune" :> TRUE)
       ELSE EmptyDict

OkumaRule(t) ==
    LET methods == (IF InText("manyetik", t) THEN {"manyetik"} ELSE {})
                   \cup (IF AnyIn(MekanikKeys, t) THEN {"mekanik_clot"} ELSE {})
                   \cup (IF InText("koagulometri", t) THEN {"mekanik_clot"} ELSE {})
    IN IF methods # {} THEN "okuma_yontemi" :> methods ELSE EmptyDict

FaktorDurumu_always_zorunlu(scan) == "zorunlu"

FaktorDurumu(scan) ==
    IF AnyIn(DisLabKeys, scan) THEN "opsiyonel_dis_lab" ELSE "zorunlu"

TestRule(t) ==
    LET scan == ScanRegion(t)
        tests == (IF InText("pt", scan) \/ InText("protrombin", scan)
                  THEN "PT" :> TRUE ELSE EmptyDict)
                 @@ (IF InText("aptt", scan) THEN "APTT" :> TRUE ELSE EmptyDict)
                 @@ (IF InText("fibrinojen", scan) THEN "Fibrinojen" :> TRUE ELSE EmptyDict)
                 @@ (IF AnyIn({"d-dimer", "d dimer", "ddimer"}, scan)
                     THEN "D-Dimer" :> TRUE ELSE EmptyDict)
                 @@ (IF AnyIn(FaktorKeys, scan) THEN FAKTOR_TR :> TRUE ELSE EmptyDict)
    IN (IF AnyIn(FaktorKeys, scan) THEN "faktor_durumu" :> FaktorDurumu(scan) ELSE EmptyDict)
       @@ (IF DOMAIN tests # {} THEN "istenen_testler" :> tests ELSE EmptyDict)

extract_rules_from_text(raw_text) ==
    LET t == normalize_tr(raw_text)
    IN KanalRule(t) @@ ProbRule(t) @@ BarkodRule(t) @@ OkumaRule(t) @@ TestRule(t)

(***************************************************************************)
(* ZEYIL TEXT (src/app.py 293-326).  A text is represented by the template *)
(* chosen ("sablon") and the title in the parentheses of its first line    *)
(* ("baslik"); the general template puts the clause label there.           *)
(***************************************************************************)
\* the substrings build_zeyil_text looks for, per label / explanation
Substrings(s) ==
    CASE s = "Barkod (Reaktif)" -> {"Barkod (Reaktif)", "Barkod"}
      [] s = "Barkod (Numune)" -> {"Barkod"}
      [] s = "Barkod" -> {"Barkod"}
      [] s = "Okuma Yontemi" -> {"Okuma Yontemi"}
      [] s = "Fakto:r Testleri" -> {"Fakto:r"}
      [] s = "Reaktif barkod okuyucu yok / esdeger yontem gerekir." -> {"Reaktif"}
      [] OTHER -> {}

InStr(sub, s) == sub \in Substrings(s)

\* build_zeyil_text with the Factor test written without its umlaut
build_zeyil_text_plain_faktor(item) ==
    IF InStr("Barkod (Reaktif)", item.madde)
       \/ (InStr("Barkod", item.madde) /\ InStr("Reaktif", item.aciklama))
    THEN [sablon |-> "reaktif_barkod", baslik |-> "Reaktif Barkod"]
    ELSE IF InStr("Okuma Yontemi", item.madde)
    THEN [sablon |-> "okuma_yontemi", baslik |-> "Okuma Yontemi"]
    ELSE IF InStr("Faktor", item.madde)
    THEN [sablon |-> "faktor", baslik |-> "Fakto:r Testleri"]
    ELSE [sablon |-> "genel", baslik |-> item.madde]

build_zeyil_text(item) ==
    IF InStr("Barkod (Reaktif)", item.madde)
       \/ (InStr("Barkod", item.madde) /\ InStr("Reaktif", item.aciklama))
    THEN [sablon |-> "reaktif_barkod", baslik |-> "Reaktif Barkod"]
    ELSE IF InStr("Okuma Yontemi", item.madde)
    THEN [sablon |-> "okuma_yontemi", baslik |-> "Okuma Yontemi"]
    ELSE IF InStr("Fakto:r", item.madde)
    THEN [sablon |-> "faktor", baslik |-> "Fakto:r Testleri"]
    ELSE [sablon |-> "genel", baslik |-> item.madde]

(***************************************************************************)
(* run_full_evaluation (src/app.py 435-498).                               *)
(***************************************************************************)
EvalResults_barkod_default(r, device_koag) ==
    << evaluate_barkod(IF HasKey(r, "barkod") THEN r.barkod ELSE EmptyDict, device_koag),
       evaluate_kanal(r, device_koag),
       evaluate_prob(r, device_koag),
       evaluate_okuma_yontemi(r, device_koag),
       evaluate_testler(r, device_koag) >>

\* run_full_evaluation giving up after a barcode clause that is Uygun Degil
EvalResults_stop_at_failure(r, device_koag) ==
    LET b == IF HasKey(r, "barkod")
             THEN evaluate_barkod(r.barkod, device_koag)
             ELSE Clause("Barkod", BILGI_YOK, "Sartnamede barkod gereksinimi yakalanamadi.", FALSE)
    IN IF b.durum = UYGUN_DEGIL
       THEN <<b>>
       ELSE << b,
               evaluate_kanal(r, device_koag),
               evaluate_prob(r, device_koag),
               evaluate_okuma_yontemi(r, device_koag),
               evaluate_testler(r, device_koag) >>

EvalResults(r, device_koag) ==
    << IF HasKey(r, "barkod")
       THEN evaluate_barkod(r.barkod, device_koag)
       ELSE Clause("Barkod", BILGI_YOK, "Sartnamede barkod gereksinimi yakalanamadi.", FALSE),
       evaluate_kanal(r, device_koag),
       evaluate_prob(r, device_koag),
       evaluate_okuma_yontemi(r, device_koag),
       evaluate_testler(r, device_koag) >>

RECURSIVE ZeyilTextsAll(_)
ZeyilTextsAll(res) ==
    IF res = <<>> THEN <<>>
    ELSE <<build_zeyil_text(Head(res))>> \o ZeyilTextsAll(Tail(res))

RECURSIVE ZeyilTexts(_)
ZeyilTexts(res) ==
    IF res = <<>> THEN <<>>
    ELSE (IF Head(res).durum = ZEYIL THEN <<build_zeyil_text(Head(res))>> ELSE <<>>)
         \o ZeyilTexts(Tail(res))

(***************************************************************************)
(* Inputs drawn for the evaluators.                                        *)
(***************************************************************************)
WithKey(d, k, v) == (k :> v) @@ d

Without(d, k) == [x \in DOMAIN d \ {k} |-> d[x]]

\* a key left out, or present with one of the values vs
OptKey(k, vs) == {EmptyDict} \cup {k :> v : v \in vs}

TrueDict(S) == [k \in S |-> TRUE]

TestReqs ==
    {EmptyDict}
    \cup {("istenen_testler" :> TrueDict(S)) : S \in {T \in SUBSET (TestNames \ {FAKTOR_TR}) :
                                                        T # {} /\ Cardinality(T) <= MaxReq}}
    \cup {("istenen_testler" :> TrueDict(S \cup {FAKTOR_TR})) @@ ("faktor_durumu" :> fd) :
              S \in {T \in SUBSET (TestNames \ {FAKTOR_TR}) : Cardinality(T) < MaxReq},
              fd \in {"zorunlu", "opsiyonel_dis_lab"}}

\* the requirement records extract_rules_from_text can build, within the bounds
ReqRecords ==
    {b @@ k @@ p @@ o @@ t :
        b \in OptKey("barkod", {TrueDict(S) : S \in SUBSET {"numune", "reaktif"} \ {{}}}),
        k \in OptKey("kanal_min", 0..MaxMin),
        p \in OptKey("prob_min", 0..MaxMin),
        o \in OptKey("okuma_yontemi", SUBSET {"manyetik", "mekanik_clot"} \ {{}}),
        t \in TestReqs}

\* testler of a device whose values are bools, Factor unsupported
TestlerBool ==
    [k \in TestNames |-> IF k = FAKTOR_TR THEN "False" ELSE "True"]

\* testler of a device whose values name the reading principle, Factor not listed
TestlerStr ==
    [k \in TestNames \ {FAKTOR_TR} |-> IF k = "D-Dimer" THEN "optik" ELSE "manyetik"]

TestlerVals ==
    { EmptyDict,
      TestlerBool,
      TestlerStr,
      [k \in TestNames |-> "True"],
      [TestlerBool EXCEPT !["PT"] = "False"],
      Without(TestlerStr, "APTT"),
      WithKey(Without(TestlerBool, FAKTOR_TR), FAKTOR_ASCII, "True"),
      WithKey(TestlerBool, FAKTOR_ASCII, "True"),
      ("D-Dimer" :> "optik") @@ ("PT" :> "True") }

BaseDevice ==
    [kanal_toplam |-> 1, prob_sayisi |-> 1,
     barkod |-> [numune |-> TRUE, reaktif |-> FALSE],
     testler |-> TestlerBool]

BarkodDevVals ==
    {[numune |-> n, reaktif |-> r] : n \in BOOLEAN, r \in BOOLEAN}
    \cup {EmptyDict, [numune |-> TRUE], [reaktif |-> TRUE]}

\* device records: the empty record, and one field group at a time varied
\* over its values around BaseDevice
DeviceRecords ==
    {EmptyDict}
    \cup {[BaseDevice EXCEPT !.kanal_toplam = c, !.prob_sayisi = c] : c \in 0..MaxDev}
    \cup {Without(BaseDevice, "kanal_toplam"), Without(BaseDevice, "prob_sayisi")}
    \cup {[BaseDevice EXCEPT !.barkod = b] : b \in BarkodDevVals}
    \cup {Without(BaseDevice, "barkod"), Without(BaseDevice, "testler")}
    \cup {[BaseDevice EXCEPT !.testler = t] : t \in TestlerVals}

ClauseOf(s) == Clause("Madde", s, "", s = ZEYIL)

RECURSIVE SeqsUpTo(_, _)
SeqsUpTo(S, n) ==
    IF n = 0 THEN {<<>>}
    ELSE LET shorter == SeqsUpTo(S, n - 1)
         IN shorter \cup {Append(q, x) : q \in shorter, x \in S}

NoOverall == [durum |-> "-", etiket |-> "-"]

(***************************************************************************)
(* Uploaded documents: up to MaxPhrases phrases, one after the other.      *)
(***************************************************************************)
NumericPhrases ==
    UNION {{ <<"en az", NumTok(n), "kanal">>,
             <<NumTok(n), "olcum", "kanali">>,
             <<"en az", NumTok(n), "adet", "test", "kanali">>,
             <<"en az", NumTok(n), "prob">>,
             <<NumTok(n), "problu">> } : n \in 0..MaxNum}

WordPhrases ==
    {<<w>> : w \in {"numune barkod", "reaktif barkod", "barkod", "Manyetik", "mekanik",
                    "istenen test", "testler", "PT", "Faktor", "Referans Lab"}}
    \cup {<<"testler", "PT", "Faktor">>}

Phrases == NumericPhrases \cup WordPhrases

RECURSIVE Flatten(_)
Flatten(ps) == IF ps = <<>> THEN <<>> ELSE Head(ps) \o Flatten(Tail(ps))

Texts == {Flatten(ps) : ps \in SeqsUpTo(Phrases, MaxPhrases)}

\* the catalog loaded from devices.json: model name -> its "koagulasyon" record
\* (a model without one is evaluated as the empty record)
DEVICES ==
    [m \in {"SF-400", "SF-8300", "X"} |->
        CASE m = "SF-400" -> BaseDevice
          [] m = "SF-8300" -> [kanal_toplam |-> 2, prob_sayisi |-> 2,
                               barkod |-> [numune |-> TRUE, reaktif |-> TRUE],
                               testler |-> TestlerStr]
          [] OTHER -> EmptyDict]

(***************************************************************************)
(* Actions.                                                                *)
(***************************************************************************)
\* the script body after an upload (src/app.py 422-430): an empty text stops
\* the run, any other text is turned into the requirement record
Upload(raw_text) ==
    /\ pc = "idle"
    /\ text' = raw_text
    /\ rules' = IF raw_text = <<>> THEN EmptyDict ELSE extract_rules_from_text(raw_text)
    /\ pc' = IF raw_text = <<>> THEN "stopped" ELSE "ready"
    /\ UNCHANGED <<device, results, overall, zeyil_texts>>

\* the uploaded file is removed: the script runs again with nothing to analyse
ClearUpload ==
    /\ pc # "idle"
    /\ text' = <<>>
    /\ rules' = EmptyDict
    /\ device' = EmptyDict
    /\ results' = <<>>
    /\ overall' = NoOverall
    /\ zeyil_texts' = <<>>
    /\ pc' = "idle"

\* one call of run_full_evaluation for the device record dev
RunFullEvaluation(dev) ==
    /\ pc \in {"ready", "shown"}
    /\ device' = dev
    /\ results' = EvalResults(rules, dev)
    /\ overall' = aggregate_overall(EvalResults(rules, dev))
    /\ zeyil_texts' = ZeyilTexts(EvalResults(rules, dev))
    /\ pc' = "shown"
    /\ UNCHANGED <<text, rules>>

\* aggregate_overall applied to a verdict list on its own
Aggregate ==
    /\ pc = "list"
    /\ overall' = aggregate_overall(results)
    /\ pc' = "aggregated"
    /\ UNCHANGED <<text, rules, device, results, zeyil_texts>>

(***************************************************************************)
(* SpecEval: the evaluators as functions of a requirement record and a     *)
(* device record.                                                          *)
(***************************************************************************)
InitEval ==
    /\ text = <<>>
    /\ rules \in ReqRecords
    /\ device \in DeviceRecords
    /\ results = <<>>
    /\ overall = NoOverall
    /\ zeyil_texts = <<>>
    /\ pc = "ready"

NextEval == RunFullEvaluation(device)

SpecEval == InitEval /\ [][NextEval]_vars

(***************************************************************************)
(* SpecAgg: aggregate_overall as a function of a list of verdicts.         *)
(***************************************************************************)
InitAgg ==
    /\ text = <<>>
    /\ rules = EmptyDict
    /\ device = EmptyDict
    /\ results \in {[i \in DOMAIN q |-> ClauseOf(q[i])] : q \in SeqsUpTo(Durumlar, MaxClauses)}
    /\ overall = NoOverall
    /\ zeyil_texts = <<>>
    /\ pc = "list"

NextAgg == Aggregate

SpecAgg == InitAgg /\ [][NextAgg]_vars

(***************************************************************************)
(* SpecNorm: normalize_tr as a function of a character text.  The variable *)
(* text holds the function's local of the same name: the input first, the  *)
(* returned text after a call, the result of a second call after that.     *)
(***************************************************************************)
Normalize ==
    /\ pc \in {"raw", "once"}
    /\ text' = normalize_tr_chars(text)
    /\ pc' = IF pc = "raw" THEN "once" ELSE "twice"
    /\ UNCHANGED <<rules, device, results, overall, zeyil_texts>>

InitNorm ==
    /\ text \in SeqsUpTo(Chars, MaxTextLen)
    /\ rules = EmptyDict
    /\ device = EmptyDict
    /\ results = <<>>
    /\ overall = NoOverall
    /\ zeyil_texts = <<>>
    /\ pc = "raw"

NextNorm == Normalize

SpecNorm == InitNorm /\ [][NextNorm]_vars

(***************************************************************************)
(* Spec: a session of the tool.  A document is uploaded and turned into    *)
(* the requirement record, then evaluated against models of the catalog.   *)
(***************************************************************************)
Init ==
    /\ text = <<>>
    /\ rules = EmptyDict
    /\ device = EmptyDict
    /\ results = <<>>
    /\ overall = NoOverall
    /\ zeyil_texts = <<>>
    /\ pc = "idle"

Next ==
    \/ \E raw_text \in Texts : Upload(raw_text)
    \/ \E m \in DOMAIN DEVICES : RunFullEvaluation(DEVICES[m])
    \/ ClearUpload

Spec == Init /\ [][Next]_vars

(***************************************************************************)
(* Properties.                                                             *)
(***************************************************************************)
\* the statuses present in the verdict list
StatusSet == {results[i].durum : i \in DOMAIN results}

\* the entry of the device's testler for key k is missing or the bool False
NotSupported(k) ==
    \/ ~HasKey(device, "testler")
    \/ ~HasKey(device.testler, k)
    \/ device.testler[k] = "False"

\* the device supports the Factor test under neither spelling
LacksFactor == NotSupported(FAKTOR_TR) /\ NotSupported(FAKTOR_ASCII)

\* the device's barcode capability k is present and true
DevBarkod(k) ==
    /\ HasKey(device, "barkod")
    /\ HasKey(device.barkod, k)
    /\ device.barkod[k]

\* the tests the requirement record asks for
Requested ==
    IF HasKey(rules, "istenen_testler") THEN DOMAIN rules.istenen_testler ELSE {}

\* C1: aggregate_overall is decided by the set of statuses in the list alone:
\* Uygun Degil if one clause is Uygun Degil, else Zeyil ile Uygun if one clause
\* is Zeyil, else Uygun (also for the empty list and for lists of Bilgi Yok
\* only); it is never Inceleme Gerekli.
C1_AggregatePrecedence ==
    pc = "aggregated" =>
        /\ overall.durum = (IF UYGUN_DEGIL \in StatusSet THEN "Uygun Degil"
                            ELSE IF ZEYIL \in StatusSet THEN "Zeyil ile Uygun"
                            ELSE "Uygun")
        /\ overall.durum # "Inceleme Gerekli"

C1_Witness ==
    /\ pc = "aggregated"
    /\ Len(results) = 4
    /\ results[1].durum = BILGI_YOK
    /\ results[2].durum = ZEYIL
    /\ results[3].durum = UYGUN_DEGIL
    /\ results[4].durum = UYGUN
    /\ overall.durum = "Uygun Degil"

\* C2: when the requirement is present and the device record has no entry for
\* the data it is compared with (no kanal_toplam, no prob_sayisi, no barkod, no
\* testler entry for a requested test), the clause is Bilgi Yok.
C2_DeviceAbsenceIsUnknown ==
    pc = "shown" =>
        /\ (HasKey(rules, "kanal_min") /\ ~HasKey(device, "kanal_toplam"))
               => results[2].durum = BILGI_YOK
        /\ (HasKey(rules, "prob_min") /\ ~HasKey(device, "prob_sayisi"))
               => results[3].durum = BILGI_YOK
        /\ (HasKey(rules, "barkod") /\ ~HasKey(device, "barkod"))
               => results[1].durum = BILGI_YOK
        /\ (\E k \in Requested : ~HasKey(device, "testler") \/ ~HasKey(device.testler, k))
               => results[5].durum = BILGI_YOK

\* C3: with kanal_min (prob_min) present in the requirement record and a device
\* count d, the clause is Uygun exactly when d >= minimum and Uygun Degil
\* exactly when d < minimum, and never Bilgi Yok.
C3_MinimumComparison ==
    pc = "shown" =>
        /\ (HasKey(rules, "kanal_min") /\ HasKey(device, "kanal_toplam"))
               => results[2].durum = (IF device.kanal_toplam >= rules.kanal_min
                                      THEN UYGUN ELSE UYGUN_DEGIL)
        /\ (HasKey(rules, "prob_min") /\ HasKey(device, "prob_sayisi"))
               => results[3].durum = (IF device.prob_sayisi >= rules.prob_min
                                      THEN UYGUN ELSE UYGUN_DEGIL)

\* C4: when a requested test other than Factor is unsupported or not listed by
\* the device, the tests clause is Uygun Degil, whatever else is requested.
C4_MissingTestIsNonCompliant ==
    pc = "shown" =>
        ((\E k \in Requested \ {FAKTOR_TR, FAKTOR_ASCII} : NotSupported(k))
             => results[5].durum = UYGUN_DEGIL)

\* C5: the extractor sets faktor_durumu to opsiyonel_dis_lab exactly when an
\* external-laboratory phrase stands in the scanned region with the Factor
\* keyword, to zorunlu otherwise, and leaves it unset when Factor is not
\* requested; with Factor requested and not supported by the device the tests
\* clause is Zeyil for opsiyonel_dis_lab and Uygun Degil for zorunlu.
C5_FactorStatus ==
    LET scan == ScanRegion(normalize_tr(text))
        factor == \E i \in DOMAIN scan : scan[i] \in FaktorKeys
        dis_lab == \E i \in DOMAIN scan : scan[i] \in DisLabKeys
    IN /\ pc \in {"ready", "shown"} =>
            /\ factor <=> FAKTOR_TR \in Requested
            /\ factor <=> HasKey(rules, "faktor_durumu")
            /\ factor => rules.faktor_durumu = (IF dis_lab THEN "opsiyonel_dis_lab"
                                                ELSE "zorunlu")
       /\ (pc = "shown" /\ FAKTOR_TR \in Requested /\ LacksFactor) =>
            results[5].durum = (IF rules.faktor_durumu = "opsiyonel_dis_lab"
                                THEN ZEYIL ELSE UYGUN_DEGIL)

C5_Witness ==
    /\ pc = "shown"
    /\ text = <<"Faktor", "Referans Lab">>
    /\ LacksFactor
    /\ rules.faktor_durumu = "opsiyonel_dis_lab"
    /\ results[5].durum = ZEYIL

\* C6: the barcode clause is Uygun Degil when sample barcode is required and
\* the device lacks it, whatever the reagent side; otherwise Zeyil when reagent
\* barcode is required and the device lacks it; otherwise Uygun.
C6_BarcodeSampleFirst ==
    (pc = "shown" /\ HasKey(rules, "barkod")) =>
        results[1].durum =
            (IF HasKey(rules.barkod, "numune") /\ ~DevBarkod("numune") THEN UYGUN_DEGIL
             ELSE IF HasKey(rules.barkod, "reaktif") /\ ~DevBarkod("reaktif") THEN ZEYIL
             ELSE UYGUN)

C6_Witness ==
    /\ pc = "shown"
    /\ HasKey(rules, "barkod")
    /\ DOMAIN rules.barkod = {"numune", "reaktif"}
    /\ ~DevBarkod("numune")
    /\ ~DevBarkod("reaktif")
    /\ results[1].durum = UYGUN_DEGIL

\* some testler value of the device is a string naming the magnetic principle
Magnetic ==
    /\ HasKey(device, "testler")
    /\ \E k \in DOMAIN device.testler : device.testler[k] = "manyetik"

\* C7: for a reading-method set of exactly {mekanik_clot} the clause is Zeyil
\* when the device has magnetic capability and Uygun Degil when it has none.
C7_MechanicalClot ==
    (pc = "shown" /\ HasKey(rules, "okuma_yontemi")
                  /\ rules.okuma_yontemi = {"mekanik_clot"}) =>
        results[4].durum = (IF Magnetic THEN ZEYIL ELSE UYGUN_DEGIL)

C7_Witness ==
    /\ pc = "shown"
    /\ HasKey(rules, "okuma_yontemi")
    /\ rules.okuma_yontemi = {"mekanik_clot"}
    /\ ~Magnetic
    /\ HasKey(device, "testler")
    /\ results[4].durum = UYGUN_DEGIL

\* the key of each clause, in the order of the verdict list
CategoryKeys == <<"barkod", "kanal_min", "prob_min", "okuma_yontemi", "istenen_testler">>

\* C8: a category whose key is absent from the extracted requirement record
\* gets a Bilgi Yok clause for every device; a document without a
\* channel-related word yields no kanal_min key.
C8_AbsentKeyIsUnknown ==
    /\ (pc \in {"ready", "shown"}
            /\ \A i \in DOMAIN text : Lower(text[i]) \notin {"kanal", "kanali"})
           => ~HasKey(rules, "kanal_min")
    /\ pc = "shown" =>
           \A c \in DOMAIN CategoryKeys :
               ~HasKey(rules, CategoryKeys[c]) => results[c].durum = BILGI_YOK

C8_Witness ==
    /\ pc = "shown"
    /\ text = <<"reaktif barkod", "PT">>
    /\ DOMAIN rules = {"barkod", "istenen_testler"}
    /\ HasKey(device, "kanal_toplam")
    /\ results[2].durum = BILGI_YOK
    /\ results[3].durum = BILGI_YOK
    /\ results[4].durum = BILGI_YOK

\* C9: kanal_min (prob_min) is the maximum of all the numbers matched by the
\* channel (probe) patterns anywhere in the text.
C9_MaximumOfAllMatches ==
    pc \in {"ready", "shown"} =>
        LET t == normalize_tr(text)
            kanal == UNION {re_findall(kanal_patterns[i], t) : i \in DOMAIN kanal_patterns}
            prob == UNION {re_findall(prob_patterns[i], t) : i \in DOMAIN prob_patterns}
        IN /\ kanal # {} => (HasKey(rules, "kanal_min") /\ rules.kanal_min = Max(kanal))
           /\ prob # {} => (HasKey(rules, "prob_min") /\ rules.prob_min = Max(prob))

\* the positions of the Zeyil clauses, in order
RECURSIVE ZeyilPositions(_)
ZeyilPositions(n) ==
    IF n = 0 THEN <<>>
    ELSE ZeyilPositions(n - 1) \o (IF results[n].durum = ZEYIL THEN <<n>> ELSE <<>>)

\* the template of each evaluator's Zeyil clause, by position in the list
ZeyilTemplateAt(c) ==
    CASE c = 1 -> "reaktif_barkod"
      [] c = 4 -> "okuma_yontemi"
      [] c = 5 -> "faktor"
      [] OTHER -> "genel"

\* C10: the amendment texts are one per Zeyil clause, in clause order, none for
\* a clause of another status; and a clause's zeyil flag is true exactly when
\* its status is Zeyil.
C10_ZeyilTextsMatchClauses ==
    pc = "shown" =>
        LET pos == ZeyilPositions(Len(results))
        IN /\ Len(zeyil_texts) = Len(pos)
           /\ \A k \in DOMAIN pos : zeyil_texts[k].sablon = ZeyilTemplateAt(pos[k])
           /\ \A i \in DOMAIN results : results[i].zeyil <=> results[i].durum = ZEYIL

C10_Witness ==
    /\ pc = "shown"
    /\ results[1].durum = ZEYIL
    /\ results[2].durum = UYGUN_DEGIL
    /\ results[3].durum = BILGI_YOK
    /\ results[4].durum = ZEYIL
    /\ results[5].durum = ZEYIL
    /\ Len(zeyil_texts) = 3

\* the three clause labels that have a template of their own
TemplateLabels == {"Barkod (Reaktif)", "Okuma Yontemi", "Fakto:r Testleri"}

\* the template that belongs to a clause label
TemplateOfLabel(madde) ==
    CASE madde = "Barkod (Reaktif)" -> "reaktif_barkod"
      [] madde = "Okuma Yontemi" -> "okuma_yontemi"
      [] madde = "Fakto:r Testleri" -> "faktor"
      [] OTHER -> "genel"

\* C11: every Zeyil verdict of the evaluators carries one of the three labels
\* "Barkod (Reaktif)", "Okuma Yontemi", "Fakto:r Testleri" and its text is built
\* from the template of that label, never from the general one; over all five
\* clauses, build_zeyil_text falls back to the general template exactly for
\* the labels outside these three.
C11_TemplateByCategory ==
    pc = "shown" =>
        LET pos == ZeyilPositions(Len(results))
        IN /\ \A k \in DOMAIN zeyil_texts :
                  /\ k \in DOMAIN pos
                  /\ results[pos[k]].madde \in TemplateLabels
                  /\ zeyil_texts[k].sablon = TemplateOfLabel(results[pos[k]].madde)
                  /\ zeyil_texts[k].sablon # "genel"
           /\ \A i \in DOMAIN results :
                  /\ build_zeyil_text(results[i]).sablon = TemplateOfLabel(results[i].madde)
                  /\ (build_zeyil_text(results[i]).sablon = "genel")
                        <=> (results[i].madde \notin TemplateLabels)

C11_Witness ==
    /\ pc = "shown"
    /\ results[2].durum = UYGUN
    /\ results[3].durum = UYGUN
    /\ [k \in DOMAIN zeyil_texts |-> zeyil_texts[k].sablon]
          = <<"reaktif_barkod", "okuma_yontemi", "faktor">>
    /\ build_zeyil_text(results[2]).sablon = "genel"

\* the upper-case letters that have a lower-case form
CasedUpper == {"A", "I", "I with dot", "S-cedilla", "G-breve", "U-umlaut",
               "O-umlaut", "C-cedilla"}

\* the characters str.isupper() holds of
UpperLetters == CasedUpper \cup {"double-struck C"}

\* the letters normalize_tr replaces
MappedDiacritics == {"dotless i", "s-cedilla", "g-breve", "u-umlaut",
                     "o-umlaut", "c-cedilla"}

NoCharIn(S, s) == \A i \in DOMAIN s : s[i] \notin S

NoSpaceRun(s) == \A i \in DOMAIN s : (i > 1 /\ IsSpace(s[i])) => ~IsSpace(s[i - 1])

\* a text returned by normalize_tr is in text
Normalized == pc \in {"once", "twice"}

\* C12 as stated: normalizing a normalized text leaves it unchanged, the
\* output has no upper-case letter, no mapped diacritic letter and no run of
\* two or more blanks, and the empty text maps to the empty text.
C12_NormalizeAsStated ==
    /\ [](Normalized => /\ NoCharIn(UpperLetters, text)
                        /\ NoCharIn(MappedDiacritics, text)
                        /\ NoSpaceRun(text))
    /\ [][pc = "once" => text' = text]_vars
    /\ [][(pc = "raw" /\ text = <<>>) => text' = <<>>]_vars

\* C12 amended: as stated, except that only the upper-case letters that have
\* a lower-case form are absent from the output; an upper-case letter without
\* one passes through unchanged.
C12_NormalizeIdempotent ==
    /\ [](Normalized => /\ NoCharIn(CasedUpper, text)
                        /\ NoCharIn(MappedDiacritics, text)
                        /\ NoSpaceRun(text))
    /\ [][pc = "once" => text' = text]_vars
    /\ [][(pc = "raw" /\ text = <<>>) => text' = <<>>]_vars

C12_Witness ==
    /\ pc = "twice"
    /\ text = <<"i", "combining dot", " ">>

\* the record d cut down to the keys ks
Only(d, ks) == [k \in (DOMAIN d) \cap ks |-> d[k]]

\* the clause labels allowed at each position of the verdict list
LabelsAt(i) ==
    CASE i = 1 -> {"Barkod", "Barkod (Numune)", "Barkod (Reaktif)"}
      [] i = 2 -> {"Kanal Sayisi"}
      [] i = 3 -> {"Prob Sayisi"}
      [] i = 4 -> {"Okuma Yontemi"}
      [] i = 5 -> {"Testler", "Fakto:r Testleri"}
      [] OTHER -> {}

====
